---- MODULE Spec2Model ----
(***************************************************************************)
(* Model of src/src/timer.rs: the Timer<TIM> driver of the stm32f30x HAL.  *)
(*                                                                         *)
(* One hardware timer resource is followed through its life: it is bound   *)
(* to a driver by the constructor, programmed by config/start/listen/...,  *)
(* and handed back by free.  The register block of the timer, the two APB1 *)
(* bits of the timer and the driver's own fields are the state.  Every     *)
(* driver operation is one action, built by composing its register writes  *)
(* in the order the source performs them; the writes of the last operation *)
(* are kept, in order, in `trace`.                                         *)
(*                                                                         *)
(* Numbers are u32/u16 as in the source.  The clock set is kept below 2^31 *)
(* so pclk1 * 2 never overflows (the APB1 clock of this device is at most  *)
(* 36 MHz); the one subtraction that can wrap, ticks - 1 with ticks = 0,   *)
(* and the one addition that can wrap, psc + 1 with psc = 65535, are       *)
(* modelled for both builds (overflow checks on: panic, off: wrap).        *)
(* A panic halts the program: no driver operation follows it, while the    *)
(* hardware goes on.                                                       *)
(*                                                                         *)
(* Spec is the whole driver over a small set of clocks and frequencies;    *)
(* SpecArith is construction, config and free alone over a wider set, for  *)
(* the properties of the divisor computation.                              *)
(***************************************************************************)
EXTENDS Integers, Sequences, FiniteSets, TLC

VARIABLES
    TIM,              \* which instance the resource is: "TIM2", "TIM3", ...
    overflow_checks,  \* the build: TRUE = arithmetic overflow panics, FALSE = wraps
    owner,            \* who holds the resource: "caller" or "driver"
    clocks,           \* Timer.clocks: [pclk1, ppre1]
    timeout,          \* Timer.timeout (Hertz)
    tim,              \* Timer.tim: the timer's register block
    apb1,             \* the timer's bits of APB1's ENR and RSTR
    trace,            \* the register writes of the last operation, in order
    op,               \* the last step taken
    ret,              \* what the last operation returned
    val,              \* the u32 it returned, if it returned one
    halted,           \* the program has panicked
    events,           \* update events since construction
    completes,        \* wait() calls that returned Ok since construction
    pending,          \* update events since the last wait() call (or construction)
    dirty,            \* the last step was a constructor call that found a register off
                      \* its reset value
    last_run,         \* the most recent of construction, start, stop and free
    last_lu,          \* the most recent of listen and unlisten since construction
    lu                \* the last step, if a listen or an unlisten: its event, and the
                      \* interrupt-enable bit and master mode before the listen

build == <<TIM, overflow_checks>>

counters == <<events, completes, pending>>

history == <<last_run, last_lu>>

vars ==
    <<build, owner, clocks, timeout, tim, apb1, trace, op, ret, val, halted, counters,
      dirty, history, lu>>

(***************************************************************************)
(* Bounds of the model.                                                    *)
(***************************************************************************)
MaxPclk == 1
MaxFreq == 1
MaxCnt == 1
MaxEvents == 2
MaxWidePclk == 6
MaxWideFreq == 6
Spread == 3

\* 1 << 16, the divisor of the prescaler computation
TwoPow16 == 65536

U16Max == TwoPow16 - 1

Instances == {"TIM2", "TIM3", "TIM4", "TIM6", "TIM7"}

\* APB1 clock frequencies the clock tree may hand to the constructor
Pclks == (1 .. MaxPclk) \cup {TwoPow16}

\* values of Clocks::ppre1()
Ppres == {1, 2}

\* frequencies a caller may ask for
Freqs == (0 .. MaxFreq) \cup {1000}

\* the wider inputs of the divisor computation (SpecArith)
WidePclks ==
    (1 .. MaxWidePclk) \cup (TwoPow16 - Spread .. TwoPow16 + Spread) \cup {8000000}

WideFreqs == (0 .. MaxWideFreq) \cup {1000}

(***************************************************************************)
(* The register block after a peripheral reset: every modelled field is 0  *)
(* but the auto-reload register, which is all ones (its low 16 bits are    *)
(* kept; TIM2's upper half-word is not represented).                       *)
(***************************************************************************)
TimReset ==
    [cen |-> FALSE, cnt |-> 0, psc |-> 0, arr |-> U16Max,
     uif |-> FALSE, uie |-> FALSE, mms |-> 0]

(***************************************************************************)
(* Register writes.  A machine m is [tim, apb1, trace]; each write returns *)
(* the machine after it, with the write appended to the trace.             *)
(***************************************************************************)
Machine == [tim |-> tim, apb1 |-> apb1, trace |-> <<>>]

TimWrite(m, field, v, tag) ==
    [m EXCEPT !.tim = [@ EXCEPT ![field] = v], !.trace = Append(@, tag)]

cr1_cen_clear(m) == TimWrite(m, "cen", FALSE, "cr1.cen=0")
cr1_cen_set(m) == TimWrite(m, "cen", TRUE, "cr1.cen=1")
cnt_reset(m) == TimWrite(m, "cnt", TimReset.cnt, "cnt.reset")
sr_uif_clear(m) == TimWrite(m, "uif", FALSE, "sr.uif=0")
cr2_mms(m, bits) == TimWrite(m, "mms", bits, "cr2.mms")
dier_uie_set(m) == TimWrite(m, "uie", TRUE, "dier.uie=1")
dier_uie_clear(m) == TimWrite(m, "uie", FALSE, "dier.uie=0")
psc_write(m, bits) == TimWrite(m, "psc", bits, "psc")
arr_write(m, bits) == TimWrite(m, "arr", bits, "arr")

enr_en_set(m) ==
    [m EXCEPT !.apb1 = [@ EXCEPT !.en = TRUE], !.trace = Append(@, "enr.en=1")]

\* The reset line acts on the peripheral only while its clock is running.
rstr_rst_set(m) ==
    [m EXCEPT !.apb1 = [@ EXCEPT !.rst = TRUE],
              !.tim = IF m.apb1.en THEN TimReset ELSE @,
              !.trace = Append(@, "rstr.rst=1")]

rstr_rst_clear(m) ==
    [m EXCEPT !.apb1 = [@ EXCEPT !.rst = FALSE], !.trace = Append(@, "rstr.rst=0")]

(***************************************************************************)
(* The driver's operations as functions of the machine.                    *)
(***************************************************************************)
\* tim_new_writes with a plausible fault: the reset pulse before the clock gate
tim_new_writes_reset_first(m) == enr_en_set(rstr_rst_clear(rstr_rst_set(m)))

tim_new_writes(m) == rstr_rst_clear(rstr_rst_set(enr_en_set(m)))

\* start_writes with a plausible fault: the update flag is cleared as well
start_writes_clears_flag(m) == cr1_cen_set(cnt_reset(sr_uif_clear(cr1_cen_clear(m))))

\* start_writes with a plausible fault: the counter is not reset
start_writes_no_reset(m) == cr1_cen_set(cr1_cen_clear(m))

start_writes(m) == cr1_cen_set(cnt_reset(cr1_cen_clear(m)))

\* wait_writes with a plausible fault: the flag is left set
wait_writes_no_ack(m) == m

wait_writes(m) == IF ~m.tim.uif THEN m ELSE sr_uif_clear(m)

\* wait_result with a plausible fault: the flag is not looked at
wait_result_always_ok(m) == "Ok"

wait_result(m) == IF ~m.tim.uif THEN "WouldBlock" ELSE "Ok"

(***************************************************************************)
(* listen / unlisten: cr2.write and dier.write, in the order of each arm.  *)
(***************************************************************************)
Events == {"TimeOut", "Update"}

listen_mms(event) == IF event = "TimeOut" THEN 1 ELSE 2

\* listen_writes with a plausible fault: the interrupt is not enabled
listen_writes_mode_only(m, event) == cr2_mms(m, listen_mms(event))

listen_writes(m, event) == dier_uie_set(cr2_mms(m, listen_mms(event)))

\* unlisten_writes with a plausible fault: the master mode is left as listen set it
unlisten_writes_keeps_mode(m, event) == dier_uie_clear(m)

\* unlisten_writes with a plausible fault: both arms in the order of the TimeOut arm
unlisten_writes_uie_first(m, event) == cr2_mms(dier_uie_clear(m), 0)

unlisten_writes(m, event) ==
    IF event = "TimeOut"
    THEN cr2_mms(dier_uie_clear(m), 0)
    ELSE dier_uie_clear(cr2_mms(m, 0))

\* free_writes with a plausible fault: the timer is left running
free_writes_keeps_running(m) == m

\* free_writes with a plausible fault: the counter is reset as well
free_writes_resets_counter(m) == cnt_reset(cr1_cen_clear(m))

free_writes(m) == cr1_cen_clear(m)

\* stop_writes with a plausible fault: the counter is not reset
stop_writes_no_reset(m) == cr1_cen_clear(m)

stop_writes(m) == cnt_reset(cr1_cen_clear(m))

(***************************************************************************)
(* config: the divisor computation.  A run is [m, panic]: the machine it   *)
(* left and whether it panicked on the way.                                *)
(***************************************************************************)
\* timer_clock with a plausible fault: the doubling rule the wrong way round
timer_clock_flipped(c) == c.pclk1 * (IF c.ppre1 = 1 THEN 2 ELSE 1)

\* pclk1 * if ppre1 == 1 { 1 } else { 2 }
timer_clock(c) == c.pclk1 * (IF c.ppre1 = 1 THEN 1 ELSE 2)

\* cast::u16(x) is Ok
u16_fits(x) == x >= 0 /\ x <= U16Max

\* (ticks - 1) / (1 << 16) in u32; 0 - 1 wraps to 2^32 - 1, whose quotient is 2^16 - 1
prescaler(ticks) == IF ticks = 0 THEN U16Max ELSE (ticks - 1) \div TwoPow16

\* reload with a plausible fault: the reload value one less than the quotient
reload_minus_one(ticks, psc) == ticks \div (psc + 1) - 1

\* reload with a plausible fault: the quotient by the fixed divisor instead of psc + 1
reload_fixed_divisor(ticks, psc) == ticks \div TwoPow16

\* ticks / u32(psc + 1)
reload(ticks, psc) == ticks \div (psc + 1)

config_run(m, c, frequency) ==
    IF frequency = 0
    THEN [m |-> m, panic |-> TRUE]                          \* division by zero
    ELSE LET ticks == timer_clock(c) \div frequency IN
         IF ticks = 0 /\ overflow_checks
         THEN [m |-> m, panic |-> TRUE]                     \* ticks - 1 overflows
         ELSE LET q == prescaler(ticks) IN
              IF ~u16_fits(q)
              THEN [m |-> m, panic |-> TRUE]                \* u16(..).unwrap()
              ELSE LET m1 == psc_write(m, q) IN
                   IF q = U16Max
                   THEN [m |-> m1, panic |-> TRUE]          \* psc + 1 overflows, or wraps to 0
                   ELSE LET a == reload(ticks, q) IN
                        IF ~u16_fits(a)
                        THEN [m |-> m1, panic |-> TRUE]     \* u16(..).unwrap()
                        ELSE [m |-> arr_write(m1, a), panic |-> FALSE]

(***************************************************************************)
(* reconfig (TIM2): the same with u32::max_value() as the divisor and no   *)
(* checked conversion.  (ticks - 1) / (2^32 - 1) is 1 when ticks - 1 has    *)
(* wrapped to 2^32 - 1 and 0 otherwise.                                    *)
(***************************************************************************)
\* reconfig_prescaler with a plausible fault: the 16-bit search bound of config
reconfig_prescaler_16bit(ticks) == IF ticks = 0 THEN 1 ELSE (ticks - 1) \div TwoPow16

reconfig_prescaler(ticks) == IF ticks = 0 THEN 1 ELSE 0

reconfig_run(m, c, frequency) ==
    IF frequency = 0
    THEN [m |-> m, panic |-> TRUE]                          \* division by zero
    ELSE LET ticks == timer_clock(c) \div frequency IN
         IF ticks = 0 /\ overflow_checks
         THEN [m |-> m, panic |-> TRUE]                     \* ticks - 1 overflows
         ELSE LET q == reconfig_prescaler(ticks) IN
              [m |-> arr_write(psc_write(m, q), reload(ticks, q)), panic |-> FALSE]

\* Live with a plausible fault: a freed driver can still be used
Live_after_free == ~halted

Live == owner = "driver" /\ ~halted

\* no listen or unlisten was the last step
NoLu == [event |-> "none", uie |-> FALSE, mms |-> 0, paired |-> FALSE, cleared |-> 0]

Commit(m) ==
    /\ tim' = m.tim
    /\ apb1' = m.apb1
    /\ trace' = m.trace

(***************************************************************************)
(* Actions.                                                                *)
(***************************************************************************)
Init ==
    /\ TIM \in Instances
    /\ overflow_checks \in BOOLEAN
    /\ owner = "caller"
    /\ clocks = [pclk1 |-> 1, ppre1 |-> 1]
    /\ timeout = 0
    /\ tim = TimReset
    /\ apb1 = [en |-> FALSE, rst |-> FALSE]
    /\ trace = <<>>
    /\ op = "init"
    /\ ret = "none"
    /\ val = 0
    /\ halted = FALSE
    /\ events = 0
    /\ completes = 0
    /\ pending = 0
    /\ dirty = FALSE
    /\ last_run = "none"
    /\ last_lu = "none"
    /\ lu = NoLu

tim_new(pclk, ppre) ==
    /\ owner = "caller"
    /\ ~halted
    /\ Commit(tim_new_writes(Machine))
    /\ owner' = "driver"
    /\ clocks' = [pclk1 |-> pclk, ppre1 |-> ppre]
    /\ timeout' = 0
    /\ op' = "new"
    /\ ret' = "Self"
    /\ val' = 0
    /\ events' = 0
    /\ completes' = 0
    /\ pending' = 0
    /\ dirty' = (tim # TimReset)
    /\ UNCHANGED <<build, halted>>
    /\ last_run' = "new"
    /\ last_lu' = "none"
    /\ lu' = NoLu

start ==
    /\ Live
    /\ Commit(start_writes(Machine))
    /\ op' = "start"
    /\ ret' = "unit"
    /\ val' = 0
    /\ UNCHANGED <<build, owner, clocks, timeout, halted, counters>>
    /\ last_run' = "start"
    /\ UNCHANGED last_lu
    /\ lu' = NoLu
    /\ dirty' = FALSE

wait ==
    /\ Live
    /\ Commit(wait_writes(Machine))
    /\ op' = "wait"
    /\ ret' = wait_result(Machine)
    /\ val' = 0
    /\ completes' = IF wait_result(Machine) = "Ok" THEN completes + 1 ELSE completes
    /\ pending' = 0
    /\ UNCHANGED <<build, owner, clocks, timeout, halted, events>>
    /\ UNCHANGED history
    /\ lu' = NoLu
    /\ dirty' = FALSE

listen(event) ==
    /\ Live
    /\ Commit(listen_writes(Machine, event))
    /\ op' = "listen"
    /\ ret' = "unit"
    /\ val' = 0
    /\ UNCHANGED <<build, owner, clocks, timeout, halted, counters>>
    /\ last_lu' = "listen"
    /\ lu' = [event |-> event, uie |-> tim.uie, mms |-> tim.mms, paired |-> FALSE,
              cleared |-> 0]
    /\ dirty' = FALSE
    /\ UNCHANGED last_run

unlisten(event) ==
    /\ Live
    /\ Commit(unlisten_writes(Machine, event))
    /\ op' = "unlisten"
    /\ ret' = "unit"
    /\ val' = 0
    /\ UNCHANGED <<build, owner, clocks, timeout, halted, counters>>
    /\ last_lu' = "unlisten"
    /\ lu' = IF op = "listen" /\ lu.event = event
             THEN [lu EXCEPT !.paired = TRUE, !.cleared = tim.mms]
             ELSE [NoLu EXCEPT !.event = event, !.cleared = tim.mms]
    /\ dirty' = FALSE
    /\ UNCHANGED last_run

config(frequency) ==
    /\ Live
    /\ timeout' = frequency
    /\ LET run == config_run(Machine, clocks, frequency) IN
         /\ Commit(run.m)
         /\ ret' = IF run.panic THEN "panic" ELSE "unit"
         /\ halted' = run.panic
    /\ op' = "config"
    /\ val' = 0
    /\ UNCHANGED <<build, owner, clocks, counters>>
    /\ UNCHANGED history
    /\ lu' = NoLu
    /\ dirty' = FALSE

free ==
    /\ Live
    /\ Commit(free_writes(Machine))
    /\ owner' = "caller"
    /\ op' = "free"
    /\ ret' = "TIM"
    /\ val' = 0
    /\ UNCHANGED <<build, clocks, timeout, halted, counters>>
    /\ last_run' = "free"
    /\ UNCHANGED last_lu
    /\ lu' = NoLu
    /\ dirty' = FALSE

get_counter ==
    /\ Live
    /\ TIM = "TIM2"
    /\ trace' = <<>>
    /\ op' = "get_counter"
    /\ ret' = "u32"
    /\ val' = tim.cnt
    /\ UNCHANGED <<build, owner, clocks, timeout, tim, apb1, halted,
                   counters>>
    /\ UNCHANGED history
    /\ lu' = NoLu
    /\ dirty' = FALSE

reconfig ==
    /\ Live
    /\ TIM = "TIM2"
    /\ LET run == reconfig_run(Machine, clocks, timeout) IN
         /\ Commit(run.m)
         /\ ret' = IF run.panic THEN "panic" ELSE "unit"
         /\ halted' = run.panic
    /\ op' = "reconfig"
    /\ val' = 0
    /\ UNCHANGED <<build, owner, clocks, timeout, counters>>
    /\ UNCHANGED history
    /\ lu' = NoLu
    /\ dirty' = FALSE

stop ==
    /\ Live
    /\ TIM = "TIM2"
    /\ Commit(stop_writes(Machine))
    /\ op' = "stop"
    /\ ret' = "unit"
    /\ val' = 0
    /\ UNCHANGED <<build, owner, clocks, timeout, halted, counters>>
    /\ last_run' = "stop"
    /\ UNCHANGED last_lu
    /\ lu' = NoLu
    /\ dirty' = FALSE

(***************************************************************************)
(* The hardware: while the counter is enabled it counts, and now and then  *)
(* completes a cycle, which latches the update flag and wraps the counter. *)
(***************************************************************************)
hw_count ==
    /\ tim.cen
    /\ tim.cnt < MaxCnt
    /\ tim' = [tim EXCEPT !.cnt = @ + 1]
    /\ op' = "hw_count"
    /\ UNCHANGED <<build, owner, clocks, timeout, apb1, trace, ret, val,
                   halted, counters>>
    /\ UNCHANGED history
    /\ lu' = NoLu
    /\ dirty' = FALSE

hw_update ==
    /\ tim.cen
    /\ events < MaxEvents
    /\ tim' = [tim EXCEPT !.cnt = 0, !.uif = TRUE]
    /\ events' = events + 1
    /\ pending' = pending + 1
    /\ op' = "hw_update"
    /\ UNCHANGED <<build, owner, clocks, timeout, apb1, trace, ret, val,
                   halted, completes>>
    /\ UNCHANGED history
    /\ lu' = NoLu
    /\ dirty' = FALSE

Next ==
    \/ \E pclk \in Pclks, ppre \in Ppres : tim_new(pclk, ppre)
    \/ start
    \/ wait
    \/ \E event \in Events : listen(event)
    \/ \E event \in Events : unlisten(event)
    \/ \E frequency \in Freqs : config(frequency)
    \/ free
    \/ get_counter
    \/ reconfig
    \/ stop
    \/ hw_count
    \/ hw_update

Spec == Init /\ [][Next]_vars

(***************************************************************************)
(* The divisor computation alone, over the wider input sets.               *)
(***************************************************************************)
NextArith ==
    \/ \E pclk \in WidePclks, ppre \in Ppres : tim_new(pclk, ppre)
    \/ \E frequency \in WideFreqs : config(frequency)
    \/ reconfig
    \/ free

SpecArith == Init /\ [][NextArith]_vars
(***************************************************************************)
(* Helpers of the properties.                                              *)
(***************************************************************************)
InTrace(tag) == \E i \in 1 .. Len(trace) : trace[i] = tag

Abs(x) == IF x < 0 THEN -x ELSE x

\* pclk * (ppre_ratio == 1 ? 1 : 2), written out from the driver's clock snapshot
EffectiveClock == IF clocks.ppre1 = 1 THEN clocks.pclk1 ELSE 2 * clocks.pclk1

\* the frequency of the last config is in the valid range
ValidFrequency == timeout >= 1 /\ timeout <= EffectiveClock

(***************************************************************************)
(* C1: the constructor enables the clock gate, then asserts reset, then    *)
(* deasserts it, in that order; when it returns every timer register is at *)
(* its reset value and target_frequency is 0, whatever a previous driver   *)
(* did with the resource.                                                  *)
(***************************************************************************)
C1_ConstructorResets ==
    op = "new" =>
        /\ trace = <<"enr.en=1", "rstr.rst=1", "rstr.rst=0">>
        /\ apb1 = [en |-> TRUE, rst |-> FALSE]
        /\ tim = TimReset
        /\ timeout = 0

\* a constructor call that found the registers left off their reset values
C1_Witness == op = "new" /\ dirty

(***************************************************************************)
(* C2 as claimed: for every frequency in 1 .. effective clock, config      *)
(* completes and programs psc and arr within 0 .. 65535.                   *)
(***************************************************************************)
C2_ConfigCompletesInRange ==
    (op = "config" /\ ValidFrequency) =>
        /\ ret = "unit"
        /\ tim.psc \in 0 .. U16Max
        /\ tim.arr \in 0 .. U16Max

(***************************************************************************)
(* C3: whenever config completes, (psc+1)*(arr+1) is within one divisor    *)
(* step of total_ticks = floor(effective clock / frequency):               *)
(* |(psc+1)*(arr+1) - total_ticks| <= psc+1.                               *)
(***************************************************************************)
C3_ProductWithinOneStep ==
    (op = "config" /\ ret = "unit" /\ ValidFrequency) =>
        Abs((tim.psc + 1) * (tim.arr + 1) - EffectiveClock \div timeout) <= tim.psc + 1

\* a completed config whose prescaler is not the trivial one
C3_Witness == op = "config" /\ ret = "unit" /\ tim.psc >= 1 /\ tim.arr > 1

(***************************************************************************)
(* C4.  Scenario pclk = 8 MHz, ppre_ratio = 1, frequency = 1000.           *)
(***************************************************************************)
Scenario1kHz ==
    op = "config" /\ clocks = [pclk1 |-> 8000000, ppre1 |-> 1] /\ timeout = 1000

\* C4 as claimed: total_ticks = 8000, psc = 0 and arr = 7999
C4_Original ==
    Scenario1kHz =>
        /\ EffectiveClock \div timeout = 8000
        /\ ret = "unit"
        /\ tim.psc = 0
        /\ tim.arr = 7999

\* C4 as amended: total_ticks = 8000, config completes with psc = 0 and arr = 8000
C4_Scenario1kHz ==
    Scenario1kHz =>
        /\ EffectiveClock \div timeout = 8000
        /\ ret = "unit"
        /\ tim.psc = 0
        /\ tim.arr = 8000

C4_Witness == Scenario1kHz /\ ret = "unit" /\ InTrace("arr")

(***************************************************************************)
(* C5.  Scenario pclk = 8 MHz, ppre_ratio = 2, frequency = 1.              *)
(***************************************************************************)
Scenario1Hz ==
    op = "config" /\ clocks = [pclk1 |-> 8000000, ppre1 |-> 2] /\ timeout = 1

\* C5 as claimed: total_ticks = 16 000 000, psc = 243, arr = floor(16 000 000 / (psc+1))
C5_Original ==
    Scenario1Hz =>
        /\ EffectiveClock \div timeout = 16000000
        /\ ret = "unit"
        /\ tim.psc = 243
        /\ tim.arr = 16000000 \div (tim.psc + 1)

\* C5 as amended: total_ticks = 16 000 000 (the clock doubled), config completes
\* with psc = 244 and arr = floor(16 000 000 / 245) = 65306
C5_Scenario1Hz ==
    Scenario1Hz =>
        /\ EffectiveClock \div timeout = 16000000
        /\ ret = "unit"
        /\ tim.psc = 244
        /\ tim.arr = 16000000 \div (tim.psc + 1)
        /\ tim.arr = 65306

C5_Witness == Scenario1Hz /\ ret = "unit" /\ tim.psc > 0 /\ InTrace("psc")

(***************************************************************************)
(* C6 as claimed: config with frequency 0, or above the effective clock,   *)
(* ends in the reported error InvalidFrequency and leaves the prescaler,   *)
(* the auto-reload register and target_frequency as they were.             *)
(***************************************************************************)
C6_InvalidFrequencyReported ==
    [][(op' = "config" /\ (timeout' = 0 \/ timeout' > EffectiveClock)) =>
          /\ ret' = "InvalidFrequency"
          /\ tim'.psc = tim.psc
          /\ tim'.arr = tim.arr
          /\ timeout' = timeout]_vars

(***************************************************************************)
(* C7 as claimed: when config fails because a computed value does not fit  *)
(* its 16-bit field, either both divisor registers were written or both    *)
(* hold their previous values; the prescaler is never rewritten alone.     *)
(***************************************************************************)
C7_NoPartialWrite ==
    [][(op' = "config" /\ ret' = "panic" /\ timeout' >= 1 /\ timeout' <= EffectiveClock) =>
          \/ tim'.psc = tim.psc /\ tim'.arr = tim.arr
          \/ \E i, j \in 1 .. Len(trace') : trace'[i] = "psc" /\ trace'[j] = "arr"]_vars

(***************************************************************************)
(* C8: from any driver state, start() clears count-enable, resets the      *)
(* counter and sets count-enable, in that order, and ends with             *)
(* count-enable set and the counter at 0, so a get_counter() right after   *)
(* it returns 0; a second start() right after the first ends in the same   *)
(* state; start() leaves the prescaler and the auto-reload value (and the  *)
(* other registers) as they were.                                          *)
(***************************************************************************)
C8_StartRestarts ==
    [][/\ op' = "start" =>
            /\ trace' = <<"cr1.cen=0", "cnt.reset", "cr1.cen=1">>
            /\ tim'.cen /\ tim'.cnt = 0
            /\ tim'.psc = tim.psc /\ tim'.arr = tim.arr
            /\ tim' = [tim EXCEPT !.cen = TRUE, !.cnt = 0]
            /\ start_writes(start_writes(Machine)).tim = tim'
       /\ (op = "start" /\ op' = "start") => (tim' = tim /\ trace' = trace)
       /\ (op = "start" /\ op' = "get_counter") => val' = 0]_vars

\* a start() of a configured timer that had been running and had counted
C8_Witness ==
    op = "start" /\ tim.cen /\ tim.cnt = 0 /\ tim.uif /\ events >= 2 /\ InTrace("cnt.reset")
       /\ tim.arr < U16Max

(***************************************************************************)
(* C9 as claimed: a wait() returns Ok or WouldBlock, never anything else;  *)
(* after a wait() that returned Ok the update flag is clear; and exactly   *)
(* one wait() returns Ok per update event, so that after an Ok as many     *)
(* wait() calls have returned Ok as update events have occurred.           *)
(***************************************************************************)
C9_Original ==
    op = "wait" =>
        /\ ret \in {"Ok", "WouldBlock"}
        /\ ret = "Ok" => (~tim.uif /\ completes = events)

(***************************************************************************)
(* C9 as amended: a wait() called while the update flag is clear returns   *)
(* WouldBlock and changes no state; a wait() called while it is set        *)
(* returns Ok and clears it; wait() returns nothing but Ok or WouldBlock;  *)
(* at most one wait() returns Ok per update event (completes <= events).   *)
(***************************************************************************)
C9_WaitAcknowledges ==
    [][op' = "wait" =>
          /\ ret' \in {"Ok", "WouldBlock"}
          /\ ~tim.uif =>
                /\ ret' = "WouldBlock"
                /\ UNCHANGED <<tim, apb1, owner, clocks, timeout, halted, completes>>
          /\ tim.uif =>
                /\ ret' = "Ok"
                /\ tim' = [tim EXCEPT !.uif = FALSE]
                /\ completes' = completes + 1
          /\ completes' <= events']_vars

\* every update event so far was answered by an Ok of its own
C9_Witness == op = "wait" /\ ret = "Ok" /\ ~tim.uif /\ completes = 2 /\ events = 2

(***************************************************************************)
(* C10: missed expirations are not queued.  If k >= 1 update events have   *)
(* occurred since the last wait(), the next wait() returns Ok once, and a  *)
(* wait() with no update event since the last wait() returns WouldBlock;   *)
(* the Ok results never outnumber the update events, and can be fewer.     *)
(***************************************************************************)
C10_NoQueueing ==
    [][op' = "wait" =>
          /\ pending >= 1 =>
                /\ ret' = "Ok"
                /\ completes' = completes + 1
                /\ pending' = 0 /\ ~tim'.uif
          /\ pending = 0 => (ret' = "WouldBlock" /\ completes' = completes)
          /\ completes' <= events']_vars

\* two update events were answered by one Ok, and the next wait() would block
C10_Witness ==
    op = "wait" /\ ret = "WouldBlock" /\ completes = 1 /\ events = 2 /\ pending = 0

(***************************************************************************)
(* C11 as claimed: from every reachable driver state, one with a listen in *)
(* effect included, after listen(e) followed by unlisten(e) the            *)
(* interrupt-enable bit and the master-mode field equal their values from  *)
(* before the listen(e).                                                   *)
(***************************************************************************)
C11_Original == lu.paired => (tim.uie = lu.uie /\ tim.mms = lu.mms)

(***************************************************************************)
(* C11 as amended: after listen(e) followed by unlisten(e) the             *)
(* interrupt-enable bit is clear and the master-mode field is 0; they      *)
(* equal their values from before the listen(e) exactly when no listen was *)
(* in effect then (the bit clear, the field 0).                            *)
(***************************************************************************)
C11_ListenUnlisten ==
    lu.paired =>
        /\ op = "unlisten"
        /\ ~tim.uie /\ tim.mms = 0
        /\ (tim.uie = lu.uie /\ tim.mms = lu.mms) <=> (~lu.uie /\ lu.mms = 0)

\* listen(Update) then unlisten(Update) from a state with no listen in effect
C11_Witness == lu.paired /\ lu.event = "Update" /\ ~lu.uie /\ lu.mms = 0 /\ ~tim.uie

(***************************************************************************)
(* C12 as claimed: listen(TimeOut) and listen(Update) are equivalent: from *)
(* the same state they write the same master-mode value and end in the     *)
(* same register state, with the interrupt-enable bit set.  So every       *)
(* listen ends in the state that a listen for either event gives.          *)
(***************************************************************************)
C12_ListenEquivalent ==
    [][op' = "listen" =>
          /\ tim'.uie
          /\ \A e \in Events :
                /\ tim' = listen_writes(Machine, e).tim
                /\ tim'.mms = listen_mms(e)]_vars

(***************************************************************************)
(* C13: free() clears the count-enable bit and returns the resource, and   *)
(* changes nothing else: the counter (not reset), the prescaler, the       *)
(* auto-reload value, the update flag, the interrupt-enable bit and the    *)
(* master-mode field are after free() what they were before it.            *)
(***************************************************************************)
C13_FreeOnlyHalts ==
    [][op' = "free" =>
          /\ trace' = <<"cr1.cen=0">>
          /\ ~tim'.cen
          /\ tim' = [tim EXCEPT !.cen = FALSE]
          /\ apb1' = apb1
          /\ ret' = "TIM" /\ owner' = "caller"]_vars

\* a free() of a running timer that had counted, with its flag and interrupt set
C13_Witness ==
    op = "free" /\ ~tim.cen /\ tim.cnt > 0 /\ tim.uif /\ tim.uie /\ tim.mms = 2
       /\ tim.arr < U16Max

(***************************************************************************)
(* C14: exclusive ownership.  The resource is held by the caller or by one *)
(* driver; the constructor runs only when the caller holds it and gives it *)
(* to the driver; free() runs only on a live driver and gives it back, so  *)
(* it cannot run twice for one construction; no driver operation runs      *)
(* while the caller holds the resource.                                    *)
(***************************************************************************)
DriverOps ==
    {"start", "wait", "listen", "unlisten", "config", "get_counter", "reconfig", "stop"}

C14_ExclusiveOwnership ==
    [][/\ owner' \in {"caller", "driver"}
       /\ op' = "new" => (owner = "caller" /\ owner' = "driver")
       /\ op' = "free" => (owner = "driver" /\ owner' = "caller")
       /\ op' \in DriverOps => (owner = "driver" /\ owner' = "driver")
       /\ owner' # owner => op' \in {"new", "free"}]_vars

\* the resource bound again after an earlier driver used it and freed it
C14_Witness ==
    op = "new" /\ owner = "driver" /\ dirty /\ last_run = "new" /\ tim = TimReset

(***************************************************************************)
(* C15: on TIM2, stop() ends with count-enable clear and the counter at 0, *)
(* keeps the resource, and leaves the prescaler, the auto-reload value,    *)
(* the interrupt-enable bit and the master mode (and the update flag) as   *)
(* they were; the driver stays usable: a start() after stop() ends with    *)
(* count-enable set and the counter at 0.                                  *)
(***************************************************************************)
C15_StopKeepsDriver ==
    [][/\ op' = "stop" =>
            /\ TIM = "TIM2"
            /\ trace' = <<"cr1.cen=0", "cnt.reset">>
            /\ ~tim'.cen /\ tim'.cnt = 0
            /\ tim' = [tim EXCEPT !.cen = FALSE, !.cnt = 0]
            /\ owner' = "driver" /\ ~halted'
            /\ start_writes(Machine').tim = [tim' EXCEPT !.cen = TRUE]
       /\ (op = "stop" /\ op' = "start") => (tim'.cen /\ tim'.cnt = 0)]_vars

\* a stop() of a configured, listening timer that had been running and had counted
C15_Witness ==
    op = "stop" /\ last_run = "stop" /\ ~tim.cen /\ tim.cnt = 0 /\ tim.uif /\ tim.uie
       /\ tim.arr < U16Max /\ owner = "driver"

(***************************************************************************)
(* C16: on TIM2, for every stored frequency f with 1 <= f <= effective     *)
(* clock, reconfig() completes with psc = 0 and                            *)
(* arr = total_ticks = floor(effective clock / f), f being the frequency   *)
(* stored by the last config; the prescaler is non-zero for no such tick   *)
(* count.                                                                  *)
(***************************************************************************)
C16_ReconfigWide ==
    (op = "reconfig" /\ ValidFrequency) =>
        /\ TIM = "TIM2"
        /\ ret = "unit"
        /\ reconfig_prescaler(EffectiveClock \div timeout) = 0
        /\ tim.psc = 0
        /\ tim.arr = EffectiveClock \div timeout

\* a reconfig whose tick count does not fit the 16 bits config is limited to
C16_Witness ==
    op = "reconfig" /\ ValidFrequency /\ ret = "unit" /\ tim.arr > U16Max
       /\ trace = <<"psc", "arr">>

(***************************************************************************)
(* C17 as claimed: for each event kind, listen writes the master mode and  *)
(* then the interrupt-enable bit, and unlisten clears the interrupt-enable *)
(* bit and then resets the master mode (the reverse order).                *)
(***************************************************************************)
C17_Original ==
    /\ op = "listen" => trace = <<"cr2.mms", "dier.uie=1">>
    /\ op = "unlisten" => trace = <<"dier.uie=0", "cr2.mms">>

(***************************************************************************)
(* C17 as amended: listen writes the master mode and then the              *)
(* interrupt-enable bit for both event kinds; unlisten(TimeOut) clears the *)
(* interrupt-enable bit and then resets the master mode (the reverse       *)
(* order), unlisten(Update) resets the master mode and then clears the     *)
(* interrupt-enable bit (the order of listen).                             *)
(***************************************************************************)
C17_WriteOrder ==
    /\ op = "listen" => trace = <<"cr2.mms", "dier.uie=1">>
    /\ (op = "unlisten" /\ lu.event = "TimeOut") => trace = <<"dier.uie=0", "cr2.mms">>
    /\ (op = "unlisten" /\ lu.event = "Update") => trace = <<"cr2.mms", "dier.uie=0">>
    /\ op = "unlisten" => lu.event \in Events

\* an unlisten(Update) undoing a listen(Update)
C17_Witness ==
    op = "unlisten" /\ lu.event = "Update" /\ lu.paired /\ trace[1] = "cr2.mms"

(***************************************************************************)
(* C18: the count-enable bit is set exactly when the most recent of        *)
(* construction, start, stop and free was start; config, reconfig, listen, *)
(* unlisten, wait and get_counter leave the count-enable bit and the       *)
(* counter as they were and write neither cr1 nor the counter register.    *)
(***************************************************************************)
C18_RunningIffStarted ==
    [][/\ tim'.cen <=> last_run' = "start"
       /\ op' \in {"new", "start", "stop", "free"} => last_run' = op'
       /\ op' \in {"config", "reconfig", "listen", "unlisten", "wait", "get_counter"} =>
            /\ last_run' = last_run
            /\ tim'.cen = tim.cen
            /\ tim'.cnt = tim.cnt
            /\ \A i \in 1 .. Len(trace') :
                  trace'[i] \notin {"cr1.cen=0", "cr1.cen=1", "cnt.reset"}]_vars

\* a running timer that has counted is configured again and keeps running
C18_Witness ==
    op = "config" /\ ret = "unit" /\ tim.cen /\ tim.cnt > 0 /\ last_run = "start"

(***************************************************************************)
(* C19: start() and stop() leave the update flag as it was, so an update   *)
(* event latched before a start() and not acknowledged is reported by the  *)
(* first wait() after that start(), with no update event since the start.  *)
(***************************************************************************)
C19_LatchedEventSurvivesStart ==
    [][/\ op' \in {"start", "stop"} =>
            (tim'.uif = tim.uif /\ ~InTrace("sr.uif=0")' /\ UNCHANGED counters)
       /\ (op = "start" /\ tim.uif /\ op' = "wait") =>
            /\ ret' = "Ok"
            /\ events' = events
            /\ completes' = completes + 1
            /\ ~tim'.uif]_vars

\* a start() over a latched, unacknowledged update event
C19_Witness ==
    op = "start" /\ tim.uif /\ tim.cen /\ tim.cnt = 0 /\ pending >= 1

(***************************************************************************)
(* C20: after any sequence of listen and unlisten calls, of any mix of     *)
(* event kinds, the interrupt-enable bit is set exactly when the most      *)
(* recent of them since construction was a listen, and the master mode is  *)
(* 0 whenever the interrupt-enable bit is clear; unlisten(e) clears both   *)
(* also when the listen in effect was for the other event kind.            *)
(***************************************************************************)
C20_ListeningIffListened ==
    /\ tim.uie <=> last_lu = "listen"
    /\ ~tim.uie => tim.mms = 0
    /\ op = "unlisten" => (~tim.uie /\ tim.mms = 0 /\ last_lu = "unlisten")
    /\ op = "listen" => (tim.uie /\ tim.mms = listen_mms(lu.event))

\* an unlisten(Update) while the listen in effect was a listen(TimeOut)
C20_Witness ==
    op = "unlisten" /\ lu.event = "Update" /\ lu.cleared = listen_mms("TimeOut")
       /\ ~tim.uie /\ tim.mms = 0
====
